---- MODULE Spec2Model ----
(***************************************************************************)
(* Billing-period boundary calculator and period aggregation of            *)
(* claude_monitor (core/billing_periods.py, core/models.py).               *)
(*                                                                         *)
(* Time.  A timezone-aware datetime in the calculator's zone is modelled   *)
(* as an integer: the number of seconds between 1970-01-01T00:00:00 and    *)
(* its wall-clock reading.  The calculator's zone is a fixed-offset zone   *)
(* (timezone.utc in the source), so wall-clock arithmetic (replace,        *)
(* + timedelta) and instant comparison agree on this representation.       *)
(* Calendar fields are derived with the proleptic Gregorian rules that     *)
(* datetime and calendar.monthrange implement.  Sub-second parts are not   *)
(* modelled: every datetime has microsecond = 0.                           *)
(*                                                                         *)
(* Optional values.  Python's None is the empty tuple << >> and a present  *)
(* value v is << v >>.                                                     *)
(***************************************************************************)
EXTENDS Integers, Sequences, FiniteSets

VARIABLES
    period_type,        \* BillingPeriodCalculator.period_type
    reset_day,          \* BillingPeriodCalculator.reset_day (Optional[int])
    custom_start_date,  \* BillingPeriodCalculator.custom_start_date (Optional[datetime])
    clock,              \* the last value datetime.now(user_tz) returned
    op,                 \* the calculator method that ran last ("idle": none yet)
    reference_arg,      \* that call's reference_time argument (None: omitted)
    reference_time,     \* that call's reference, normalized to user_tz
    count,              \* that call's count argument (get_recent_periods)
    periods,            \* the BillingPeriod objects that call returned
    result,             \* what that call returned or raised otherwise (Optional)
    summary,            \* the BillingPeriodSummary being built
    calls               \* the batches passed to add_session_block so far

vars == << period_type, reset_day, custom_start_date, clock, op, reference_arg,
           reference_time, count, periods, result, summary, calls >>

calc_vars == << period_type, reset_day, custom_start_date >>
call_vars == << op, reference_arg, reference_time, count, periods, result >>
summary_vars == << summary, calls >>

-----------------------------------------------------------------------------
(* Optional values *)

None == << >>
Some(v) == << v >>
IsNone(x) == x = << >>
Val(x) == x[1]

-----------------------------------------------------------------------------
(* datetime / calendar library behaviour used by the calculator *)

\* timedelta(days = n) in seconds
timedelta_days(n) == n * 86400

is_leap(y) == (y % 4 = 0) /\ ((y % 100 # 0) \/ (y % 400 = 0))

\* calendar.monthrange(year, month)[1]
monthrange_days(y, m) ==
    IF m = 2 THEN (IF is_leap(y) THEN 29 ELSE 28)
    ELSE IF m \in {4, 6, 9, 11} THEN 30 ELSE 31

\* number of days from 1970-01-01 to the civil date y-m-d; yy is the year
\* counted from March, mp the month counted from March
days_from_march_civil(yy, mp, d) ==
    (yy \div 400) * 146097
    + (yy % 400) * 365 + (yy % 400) \div 4 - (yy % 400) \div 100
    + (153 * mp + 2) \div 5 + d - 1
    - 719468

days_from_civil(y, m, d) ==
    days_from_march_civil(IF m <= 2 THEN y - 1 ELSE y,
                          IF m > 2 THEN m - 3 ELSE m + 9, d)

\* the civil date of day number z (days since 1970-01-01): by 400-year era,
\* day of era, year of era, day of the year counted from March, and month
\* counted from March
civil_ymd(y, m, d) ==
    [year |-> IF m <= 2 THEN y + 1 ELSE y, month |-> m, day |-> d]

civil_from_mp(y, doy, mp) ==
    civil_ymd(y, IF mp < 10 THEN mp + 3 ELSE mp - 9, doy - (153 * mp + 2) \div 5 + 1)

civil_from_doy(y, doy) == civil_from_mp(y, doy, (5 * doy + 2) \div 153)

civil_from_yoe(era, doe, yoe) ==
    civil_from_doy(yoe + era * 400, doe - (365 * yoe + yoe \div 4 - yoe \div 100))

civil_from_doe(era, doe) ==
    civil_from_yoe(era, doe,
                   (doe - doe \div 1460 + doe \div 36524 - doe \div 146096) \div 365)

civil_from_days(z) ==
    civil_from_doe((z + 719468) \div 146097, (z + 719468) % 146097)

\* datetime(y, m, d, hh, mm, ss, tzinfo = user_tz)
datetime(y, m, d, hh, mm, ss) ==
    days_from_civil(y, m, d) * 86400 + hh * 3600 + mm * 60 + ss

\* F applied to the value of e, which is computed once
Bind(e, F(_)) == CHOOSE r \in { F(x) : x \in {e} } : TRUE

dt_date(t) == civil_from_days(t \div 86400)
dt_year(t) == dt_date(t).year
dt_month(t) == dt_date(t).month
dt_day(t) == dt_date(t).day
dt_hour(t) == (t % 86400) \div 3600
dt_minute(t) == (t % 3600) \div 60
dt_second(t) == t % 60

\* datetime.weekday(): Monday = 0 .. Sunday = 6 (1970-01-01 was a Thursday)
weekday(t) == ((t \div 86400) + 3) % 7

\* dt.replace(hour=0, minute=0, second=0, microsecond=0)
replace_midnight(t) ==
    Bind(dt_date(t), LAMBDA d : datetime(d.year, d.month, d.day, 0, 0, 0))

\* dt.replace(hour=h)
replace_hour(t, h) ==
    Bind(dt_date(t),
         LAMBDA d : datetime(d.year, d.month, d.day, h, dt_minute(t), dt_second(t)))

\* dt.replace(year=y, month=m, day=d)
replace_date(t, y, m, d) ==
    datetime(y, m, d, dt_hour(t), dt_minute(t), dt_second(t))

\* int(x / y) for y > 0: the quotient truncated toward zero
int_div(x, y) == IF x >= 0 THEN x \div y ELSE -((-x) \div y)

\* _ensure_timezone(dt, user_tz), user_tz a zone of UTC offset 0.  dt is
\* [wall |-> wall-clock seconds, utcoffset |-> None | Some(offset seconds)].
ensure_timezone(dt) ==
    IF IsNone(dt.utcoffset)
    THEN dt.wall                        \* dt.replace(tzinfo = target_tz)
    ELSE dt.wall - Val(dt.utcoffset)    \* dt.astimezone(target_tz)

-----------------------------------------------------------------------------
(* core/models.py: BillingPeriod *)

BillingPeriod(ptype, start, end, current) ==
    [period_type |-> ptype, start_time |-> start, end_time |-> end,
     is_current |-> current]

\* variant: the period is closed at its end
contains_timestamp_closed(period, timestamp) ==
    period.start_time <= timestamp /\ timestamp <= period.end_time

\* BillingPeriod.contains_timestamp
contains_timestamp(period, timestamp) ==
    period.start_time <= timestamp /\ timestamp < period.end_time

-----------------------------------------------------------------------------
(* core/billing_periods.py: BillingPeriodCalculator.  ref is the reference  *)
(* time, already in the calculator's zone.                                  *)

\* period_duration = timedelta(days=30)
PeriodDurationDays == 30

\* variant: the reset of the reference date is used even when it lies ahead
calculate_daily_boundaries_no_rollback(ref) ==
    LET reset_hour == IF ~IsNone(reset_day) THEN Val(reset_day) ELSE 0
    IN  Bind(replace_hour(replace_midnight(ref), reset_hour),
             LAMBDA s : << s, s + timedelta_days(1) >>)

calculate_daily_boundaries(ref) ==
    LET reset_hour == IF ~IsNone(reset_day) THEN Val(reset_day) ELSE 0
        start_time ==
            IF reset_hour > 0
            THEN Bind(replace_hour(replace_midnight(ref), reset_hour),
                      LAMBDA reset_today :
                          IF ref < reset_today
                          THEN reset_today - timedelta_days(1)
                          ELSE reset_today)
            ELSE replace_midnight(ref)
    IN  Bind(start_time, LAMBDA s : << s, s + timedelta_days(1) >>)

\* variant: the weekday is counted from Sunday (isoweekday() % 7)
calculate_weekly_boundaries_sunday0(ref) ==
    LET reset_weekday    == IF ~IsNone(reset_day) THEN Val(reset_day) ELSE 0
        days_since_reset == (((weekday(ref) + 1) % 7) - reset_weekday) % 7
        start_of_week    == ref - timedelta_days(days_since_reset)
    IN  Bind(replace_midnight(start_of_week),
             LAMBDA s : << s, s + timedelta_days(7) >>)

calculate_weekly_boundaries(ref) ==
    LET reset_weekday    == IF ~IsNone(reset_day) THEN Val(reset_day) ELSE 0
        days_since_reset == (weekday(ref) - reset_weekday) % 7
        start_of_week    == ref - timedelta_days(days_since_reset)
    IN  Bind(replace_midnight(start_of_week),
             LAMBDA s : << s, s + timedelta_days(7) >>)

min2(a, b) == IF a < b THEN a ELSE b

\* variant: the month after the next one is taken
monthly_end_time_month_after_next(start_time, rd) ==
    Bind(dt_date(start_time),
         LAMBDA s :
           LET next_year      == IF s.month >= 11 THEN s.year + 1 ELSE s.year
               next_month     == IF s.month >= 11 THEN s.month - 10 ELSE s.month + 2
               next_max_day   == monthrange_days(next_year, next_month)
               next_reset_day == min2(rd, next_max_day)
           IN  replace_date(start_time, next_year, next_month, next_reset_day))

\* variant: the year is not advanced when the period starts in December
monthly_end_time_same_year(start_time, rd) ==
    Bind(dt_date(start_time),
         LAMBDA s :
           LET next_month     == IF s.month = 12 THEN 1 ELSE s.month + 1
               next_max_day   == monthrange_days(s.year, next_month)
               next_reset_day == min2(rd, next_max_day)
           IN  replace_date(start_time, s.year, next_month, next_reset_day))

\* variant: the period ends a fixed 30 days after its start
monthly_end_time_fixed_length(start_time, rd) == start_time + timedelta_days(30)

\* lines 256-269: the end of the monthly period that starts at start_time
monthly_end_time(start_time, rd) ==
    Bind(dt_date(start_time),
         LAMBDA s :
           LET next_year      == IF s.month = 12 THEN s.year + 1 ELSE s.year
               next_month     == IF s.month = 12 THEN 1 ELSE s.month + 1
               next_max_day   == monthrange_days(next_year, next_month)
               next_reset_day == min2(rd, next_max_day)
           IN  replace_date(start_time, next_year, next_month, next_reset_day))

\* variant: the previous month reuses the reset day clamped to the reference month
monthly_start_time_stale_clamp(ref, r, rd) ==
    LET max_day          == monthrange_days(r.year, r.month)
        actual_reset_day == min2(rd, max_day)
        prev_year        == IF r.month = 1 THEN r.year - 1 ELSE r.year
        prev_month       == IF r.month = 1 THEN 12 ELSE r.month - 1
    IN  IF r.day < actual_reset_day
        THEN datetime(prev_year, prev_month, actual_reset_day, 0, 0, 0)
        ELSE datetime(r.year, r.month, actual_reset_day, 0, 0, 0)

\* lines 229-254: the start of the monthly period of ref, r the date of ref
monthly_start_time(ref, r, rd) ==
    LET max_day          == monthrange_days(r.year, r.month)
        actual_reset_day == min2(rd, max_day)
        prev_year        == IF r.month = 1 THEN r.year - 1 ELSE r.year
        prev_month       == IF r.month = 1 THEN 12 ELSE r.month - 1
        prev_max_day     == monthrange_days(prev_year, prev_month)
        prev_reset_day   == min2(rd, prev_max_day)
    IN  IF r.day < actual_reset_day
        THEN datetime(prev_year, prev_month, prev_reset_day, 0, 0, 0)
        ELSE datetime(r.year, r.month, actual_reset_day, 0, 0, 0)

calculate_monthly_boundaries(ref) ==
    LET rd == IF ~IsNone(reset_day) THEN Val(reset_day) ELSE 1
    IN  Bind(monthly_start_time(ref, dt_date(ref), rd),
             LAMBDA s : << s, monthly_end_time(s, rd) >>)

calculate_custom_boundaries(ref) ==
    IF IsNone(custom_start_date)
    THEN calculate_daily_boundaries(ref)
    ELSE LET custom_start     == ensure_timezone(Val(custom_start_date))
             period_duration  == timedelta_days(PeriodDurationDays)
             time_since_start == ref - custom_start
             periods_elapsed  == int_div(time_since_start, period_duration)
             start_time       == custom_start + period_duration * periods_elapsed
         IN  Bind(start_time, LAMBDA s : << s, s + period_duration >>)

\* the ValueError of an unsupported period type, in place of a returned value
ValueError == << >>
raised(x) == DOMAIN x = {}

\* the members of BillingPeriodType
BillingPeriodTypes == {"daily", "weekly", "monthly", "custom"}

calculate_period_boundaries(ref) ==
    CASE period_type = "daily"   -> calculate_daily_boundaries(ref)
      [] period_type = "weekly"  -> calculate_weekly_boundaries(ref)
      [] period_type = "monthly" -> calculate_monthly_boundaries(ref)
      [] period_type = "custom"  -> calculate_custom_boundaries(ref)
      [] OTHER                   -> ValueError

\* get_current_period(reference_time); ref_arg is None or Some(datetime),
\* now is what datetime.now(user_tz) returns if it is read
get_current_period(ref_arg, now) ==
    LET ref == IF IsNone(ref_arg) THEN now ELSE ensure_timezone(Val(ref_arg))
    IN  Bind(calculate_period_boundaries(ref),
             LAMBDA b : IF b = ValueError THEN ValueError
                        ELSE BillingPeriod(period_type, b[1], b[2], TRUE))

\* get_period_for_timestamp(timestamp); now is the clock reading of line 103
get_period_for_timestamp(timestamp, now) ==
    Bind(calculate_period_boundaries(ensure_timezone(timestamp)),
         LAMBDA b : BillingPeriod(period_type, b[1], b[2], b[1] <= now /\ now < b[2]))

\* an aware datetime of the calculator's zone, as an argument
aware(t) == [wall |-> t, utcoffset |-> Some(0)]

\* variant: the next reference is the start of the period, not the second
\* before it
RECURSIVE recent_periods_loop_no_step_back(_, _, _, _)
recent_periods_loop_no_step_back(i, n, current_ref, nows) ==
    IF i > n THEN << >>
    ELSE Bind(get_period_for_timestamp(aware(current_ref), nows[i]),
              LAMBDA period :
                  << period >> \o
                  recent_periods_loop_no_step_back(i + 1, n, period.start_time, nows))

\* the loop of get_recent_periods: nows[i] is the clock reading of iteration i
RECURSIVE recent_periods_loop(_, _, _, _)
recent_periods_loop(i, n, current_ref, nows) ==
    IF i > n THEN << >>
    ELSE Bind(get_period_for_timestamp(aware(current_ref), nows[i]),
              LAMBDA period :
                  << period >> \o
                  recent_periods_loop(i + 1, n, period.start_time - 1, nows))

\* get_recent_periods(count, reference_time); now0 is the clock reading of
\* line 128 (used when no reference is given)
get_recent_periods(n, ref_arg, now0, nows) ==
    LET ref == IF IsNone(ref_arg) THEN now0 ELSE ensure_timezone(Val(ref_arg))
    IN  recent_periods_loop(1, n, ref, nows)

\* get_next_reset_time(reference_time)
get_next_reset_time(ref_arg, now) == get_current_period(ref_arg, now).end_time

\* variant: the reference is subtracted as passed, not normalized to user_tz
get_time_until_reset_as_passed(ref_arg, now) ==
    LET ref == IF IsNone(ref_arg) THEN now ELSE Val(ref_arg).wall
    IN  get_next_reset_time(ref_arg, now) - ref

\* get_time_until_reset(reference_time); now is the clock reading of line 317
\* (read when no reference is given)
get_time_until_reset(ref_arg, now) ==
    LET ref == IF IsNone(ref_arg) THEN now ELSE ensure_timezone(Val(ref_arg))
    IN  get_next_reset_time(Some(aware(ref)), now) - ref

-----------------------------------------------------------------------------
(* Configurations and arguments explored *)

\* days of reference instants explored from the first one, per period type
DailySpanDays == 2
WeeklySpanDays == 14
MonthlySpanDays == 66
CustomSpanDays == 130
\* largest count passed to get_recent_periods
MaxCount == 3

\* a naive datetime argument, and an aware one of UTC offset off, of the
\* wall-clock reading w
naive(w) == [wall |-> w, utcoffset |-> None]
aware_at(w, off) == [wall |-> w, utcoffset |-> Some(off)]

\* the anchors of Custom calculators: aware, naive (as strptime gives it in
\* analyze_usage_with_billing_periods), and aware in another zone
CustomAnchors ==
    { aware_at(datetime(2024, 1, 10, 0, 0, 0), 0),
      naive(datetime(2024, 1, 10, 0, 0, 0)),
      aware_at(datetime(2024, 1, 10, 8, 30, 0), 3600) }

\* the calculators explored: every in-range reset offset of every period type
Configs ==
    [ptype : {"daily"}, rd : {None} \cup {Some(h) : h \in 0..23}, anchor : {None}]
    \cup [ptype : {"weekly"}, rd : {None} \cup {Some(w) : w \in 0..6}, anchor : {None}]
    \cup [ptype : {"monthly"}, rd : {None} \cup {Some(d) : d \in 1..31}, anchor : {None}]
    \cup [ptype : {"custom"}, rd : {None},
             anchor : {None} \cup {Some(a) : a \in CustomAnchors}]
    \* a Custom calculator without an anchor that was given a reset_day
    \cup [ptype : {"custom"}, rd : {Some(0), Some(6), Some(23)}, anchor : {None}]

Instants(first_day, span, times) ==
    { (first_day + d) * 86400 + s : d \in 0..span, s \in times }

\* the reference instants explored for the calculator's period type, in the
\* calculator's zone
ReferenceInstants ==
    CASE period_type = "daily" ->
           Instants(days_from_civil(2024, 1, 14), DailySpanDays,
                    {h * 3600 : h \in 0..23} \cup {h * 3600 + 3599 : h \in 0..23}
                        \cup {4 * 3600 + 1800, 14 * 3600 + 1800})
      [] period_type = "weekly" ->
           Instants(days_from_civil(2024, 1, 8), WeeklySpanDays,
                    {0, 14 * 3600 + 1800, 86399})
      [] period_type = "monthly" ->
           \* across a year's end and a February of 28 days, one of 29 days,
           \* and the 30-day April
           Instants(days_from_civil(2022, 12, 28), MonthlySpanDays, {0, 86399})
           \cup Instants(days_from_civil(2023, 12, 28), MonthlySpanDays, {0, 86399})
           \cup Instants(days_from_civil(2024, 3, 28), MonthlySpanDays, {0, 86399})
      [] period_type = "custom" ->
           Instants(days_from_civil(2023, 11, 8), CustomSpanDays,
                    {0, 14 * 3600 + 1800, 86399})

\* the datetime arguments explored: each reference instant as a naive datetime
\* when its day number is even, else as an aware one of UTC offset +1h
ReferenceArgs ==
    { IF (t \div 86400) % 2 = 0 THEN naive(t) ELSE aware_at(t + 3600, 3600)
        : t \in ReferenceInstants }

\* the readings datetime.now(user_tz) can return
ClockValues == { datetime(2024, 1, 15, 14, 30, 0), datetime(2024, 1, 16, 0, 0, 0) }

\* the non-decreasing sequences of n clock readings from the last one on
ClockReadings(n) ==
    { r \in [1..n -> ClockValues] :
        /\ \A i \in 1..n : r[i] >= clock
        /\ \A i \in 1..(n - 1) : r[i] <= r[i + 1] }

-----------------------------------------------------------------------------
(* core/models.py: UsageEntry, TokenCounts, SessionBlock, BillingPeriodSummary. *)
(* cost_usd is an exact number: an integer count of thousandths of a dollar.    *)

UsageEntry(ts, i, o, cc, cr, cost, model) ==
    [timestamp |-> ts, input_tokens |-> i, output_tokens |-> o,
     cache_creation_tokens |-> cc, cache_read_tokens |-> cr,
     cost_usd |-> cost, model |-> model]

TokenCounts(i, o, cc, cr) ==
    [input_tokens |-> i, output_tokens |-> o,
     cache_creation_tokens |-> cc, cache_read_tokens |-> cr]

\* TokenCounts.total_tokens
token_counts_total(tc) ==
    tc.input_tokens + tc.output_tokens + tc.cache_creation_tokens + tc.cache_read_tokens

\* a SessionBlock, of which add_session_block reads the entries only
SessionBlock(entries) == [entries |-> entries]

\* an empty dict
EmptyDict == [k \in {} |-> 0]

\* BillingPeriodSummary(period = period)
BillingPeriodSummary(period) ==
    [period |-> period, total_cost |-> 0, total_tokens |-> 0,
     token_counts |-> TokenCounts(0, 0, 0, 0), session_blocks |-> << >>,
     entries_count |-> 0, models_used |-> << >>,
     per_model_costs |-> EmptyDict, first_usage |-> None, last_usage |-> None]

NoSummary == << >>

\* variant: every entry of the block is taken once one of them is inside
relevant_entries_whole_block(s, session_block) ==
    IF \E k \in DOMAIN session_block.entries :
           contains_timestamp(s.period, session_block.entries[k].timestamp)
    THEN session_block.entries
    ELSE << >>

\* lines 187-190: the entries of the block inside the period, in order
relevant_entries(s, session_block) ==
    SelectSeq(session_block.entries,
              LAMBDA entry : contains_timestamp(s.period, entry.timestamp))

\* variant: the cost of an entry without a model name is kept under no key
add_entry_skips_unnamed_cost(acc, entry) ==
    [period_cost |-> acc.period_cost + entry.cost_usd,
     period_tokens |->
         TokenCounts(acc.period_tokens.input_tokens + entry.input_tokens,
                     acc.period_tokens.output_tokens + entry.output_tokens,
                     acc.period_tokens.cache_creation_tokens + entry.cache_creation_tokens,
                     acc.period_tokens.cache_read_tokens + entry.cache_read_tokens),
     models_used |->
         IF entry.model # "" /\ \A k \in DOMAIN acc.models_used :
                                   acc.models_used[k] # entry.model
         THEN Append(acc.models_used, entry.model)
         ELSE acc.models_used,
     per_model_costs |->
         IF entry.model = "" THEN acc.per_model_costs
         ELSE [m \in DOMAIN acc.per_model_costs \cup {entry.model} |->
                 IF m = entry.model
                 THEN IF m \in DOMAIN acc.per_model_costs
                      THEN acc.per_model_costs[m] + entry.cost_usd
                      ELSE entry.cost_usd
                 ELSE acc.per_model_costs[m]]]

\* variant: the cost of a model is overwritten by its latest entry
add_entry_last_cost_wins(acc, entry) ==
    [period_cost |-> acc.period_cost + entry.cost_usd,
     period_tokens |->
         TokenCounts(acc.period_tokens.input_tokens + entry.input_tokens,
                     acc.period_tokens.output_tokens + entry.output_tokens,
                     acc.period_tokens.cache_creation_tokens + entry.cache_creation_tokens,
                     acc.period_tokens.cache_read_tokens + entry.cache_read_tokens),
     models_used |->
         IF entry.model # "" /\ \A k \in DOMAIN acc.models_used :
                                   acc.models_used[k] # entry.model
         THEN Append(acc.models_used, entry.model)
         ELSE acc.models_used,
     per_model_costs |->
         [m \in DOMAIN acc.per_model_costs \cup {entry.model} |->
             IF m = entry.model THEN entry.cost_usd ELSE acc.per_model_costs[m]]]

\* variant: a model is listed without looking at what is listed already
add_entry_lists_every_model(acc, entry) ==
    [period_cost |-> acc.period_cost + entry.cost_usd,
     period_tokens |->
         TokenCounts(acc.period_tokens.input_tokens + entry.input_tokens,
                     acc.period_tokens.output_tokens + entry.output_tokens,
                     acc.period_tokens.cache_creation_tokens + entry.cache_creation_tokens,
                     acc.period_tokens.cache_read_tokens + entry.cache_read_tokens),
     models_used |->
         IF entry.model # "" THEN Append(acc.models_used, entry.model)
         ELSE acc.models_used,
     per_model_costs |->
         [m \in DOMAIN acc.per_model_costs \cup {entry.model} |->
             IF m = entry.model
             THEN IF m \in DOMAIN acc.per_model_costs
                  THEN acc.per_model_costs[m] + entry.cost_usd
                  ELSE entry.cost_usd
             ELSE acc.per_model_costs[m]]]

\* lines 202-216: one iteration of the loop over the relevant entries; acc
\* holds period_cost, period_tokens, models_used and per_model_costs
add_entry(acc, entry) ==
    [period_cost |-> acc.period_cost + entry.cost_usd,
     period_tokens |->
         TokenCounts(acc.period_tokens.input_tokens + entry.input_tokens,
                     acc.period_tokens.output_tokens + entry.output_tokens,
                     acc.period_tokens.cache_creation_tokens + entry.cache_creation_tokens,
                     acc.period_tokens.cache_read_tokens + entry.cache_read_tokens),
     models_used |->
         IF entry.model # "" /\ \A k \in DOMAIN acc.models_used :
                                   acc.models_used[k] # entry.model
         THEN Append(acc.models_used, entry.model)
         ELSE acc.models_used,
     per_model_costs |->
         [m \in DOMAIN acc.per_model_costs \cup {entry.model} |->
             IF m = entry.model
             THEN IF m \in DOMAIN acc.per_model_costs
                  THEN acc.per_model_costs[m] + entry.cost_usd
                  ELSE entry.cost_usd
             ELSE acc.per_model_costs[m]]]

\* lines 201-216: the loop over the relevant entries from index k on
RECURSIVE add_entries(_, _, _)
add_entries(acc, entries, k) ==
    IF k > Len(entries) THEN acc
    ELSE add_entries(Bind(acc, LAMBDA a : add_entry(a, entries[k])), entries, k + 1)

seq_min(ts) == CHOOSE x \in {ts[k] : k \in DOMAIN ts} :
                   \A y \in {ts[k] : k \in DOMAIN ts} : x <= y
seq_max(ts) == CHOOSE x \in {ts[k] : k \in DOMAIN ts} :
                   \A y \in {ts[k] : k \in DOMAIN ts} : x >= y

\* variant: first_usage and last_usage are those of the latest block
add_relevant_entries_latest_block(s, session_block, rel) ==
    LET acc == add_entries([period_cost |-> 0,
                            period_tokens |-> TokenCounts(0, 0, 0, 0),
                            models_used |-> s.models_used,
                            per_model_costs |-> s.per_model_costs], rel, 1)
        entry_timestamps == [k \in DOMAIN rel |-> rel[k].timestamp]
    IN  Bind(acc, LAMBDA a :
          [period |-> s.period,
           total_cost |-> s.total_cost + a.period_cost,
           total_tokens |-> s.total_tokens,
           token_counts |->
               TokenCounts(
                   s.token_counts.input_tokens + a.period_tokens.input_tokens,
                   s.token_counts.output_tokens + a.period_tokens.output_tokens,
                   s.token_counts.cache_creation_tokens
                       + a.period_tokens.cache_creation_tokens,
                   s.token_counts.cache_read_tokens + a.period_tokens.cache_read_tokens),
           session_blocks |-> Append(s.session_blocks, session_block),
           entries_count |-> s.entries_count + Len(rel),
           models_used |-> a.models_used,
           per_model_costs |-> a.per_model_costs,
           first_usage |-> Some(seq_min(entry_timestamps)),
           last_usage |-> Some(seq_max(entry_timestamps))])

\* lines 195-234: the summary after a block with relevant entries rel is added
add_relevant_entries(s, session_block, rel) ==
    LET acc == add_entries([period_cost |-> 0,
                            period_tokens |-> TokenCounts(0, 0, 0, 0),
                            models_used |-> s.models_used,
                            per_model_costs |-> s.per_model_costs], rel, 1)
        entry_timestamps == [k \in DOMAIN rel |-> rel[k].timestamp]
        earliest == seq_min(entry_timestamps)
        latest   == seq_max(entry_timestamps)
    IN  Bind(acc, LAMBDA a :
          [period |-> s.period,
           total_cost |-> s.total_cost + a.period_cost,
           total_tokens |-> s.total_tokens,
           token_counts |->
               TokenCounts(
                   s.token_counts.input_tokens + a.period_tokens.input_tokens,
                   s.token_counts.output_tokens + a.period_tokens.output_tokens,
                   s.token_counts.cache_creation_tokens
                       + a.period_tokens.cache_creation_tokens,
                   s.token_counts.cache_read_tokens + a.period_tokens.cache_read_tokens),
           session_blocks |-> Append(s.session_blocks, session_block),
           entries_count |-> s.entries_count + Len(rel),
           models_used |-> a.models_used,
           per_model_costs |-> a.per_model_costs,
           first_usage |-> IF IsNone(s.first_usage) \/ earliest < Val(s.first_usage)
                           THEN Some(earliest) ELSE s.first_usage,
           last_usage |-> IF IsNone(s.last_usage) \/ latest > Val(s.last_usage)
                          THEN Some(latest) ELSE s.last_usage])

\* variant: total_tokens is brought up to date after the block is added
add_session_block_sets_total_tokens(s, session_block) ==
    Bind(relevant_entries(s, session_block),
         LAMBDA rel :
             IF rel = << >> THEN s
             ELSE Bind(add_relevant_entries(s, session_block, rel),
                       LAMBDA r : [r EXCEPT !.total_tokens =
                                       token_counts_total(r.token_counts)]))

\* variant: the block is recorded before its entries are filtered
add_session_block_records_first(s, session_block) ==
    Bind(relevant_entries(s, session_block),
         LAMBDA rel :
             IF rel = << >>
             THEN [s EXCEPT !.session_blocks = Append(@, session_block)]
             ELSE add_relevant_entries(s, session_block, rel))

\* BillingPeriodSummary.add_session_block
add_session_block(s, session_block) ==
    Bind(relevant_entries(s, session_block),
         LAMBDA rel : IF rel = << >> THEN s
                      ELSE add_relevant_entries(s, session_block, rel))

RECURSIVE gcd(_, _)
gcd(a, b) == IF b = 0 THEN a ELSE gcd(b, a % b)

\* a float given exactly, as the fraction num / den (num >= 0, den > 0) in
\* lowest terms
Fraction(num, den) ==
    Bind(gcd(num, den), LAMBDA g : [num |-> num \div g, den |-> den \div g])

\* variant: the elapsed share is not capped once the period has ended
cost_percentage_of_period_uncapped(s, now) ==
    IF ~s.period.is_current THEN Fraction(100, 1)
    ELSE IF now <= s.period.start_time THEN Fraction(0, 1)
    ELSE LET elapsed == now - s.period.start_time
             total   == s.period.end_time - s.period.start_time
         IN  Fraction(elapsed * 100, total)

\* BillingPeriodSummary.cost_percentage_of_period; now is the clock reading
\* of line 173 (read only when the period is current)
cost_percentage_of_period(s, now) ==
    IF ~s.period.is_current THEN Fraction(100, 1)
    ELSE IF now <= s.period.start_time THEN Fraction(0, 1)
    ELSE IF now >= s.period.end_time THEN Fraction(100, 1)
    ELSE LET elapsed == now - s.period.start_time
             total   == s.period.end_time - s.period.start_time
         IN  Fraction(elapsed * 100, total)

\* BillingPeriodSummary.total_tokens_calculated
total_tokens_calculated(s) == token_counts_total(s.token_counts)

\* the loop of create_period_summary over the session blocks from index k on
RECURSIVE add_session_blocks(_, _, _)
add_session_blocks(s, session_blocks, k) ==
    IF k > Len(session_blocks) THEN s
    ELSE add_session_blocks(Bind(s, LAMBDA x : add_session_block(x, session_blocks[k])),
                            session_blocks, k + 1)

\* BillingPeriodCalculator.create_period_summary
create_period_summary(period, session_blocks) ==
    add_session_blocks(BillingPeriodSummary(period), session_blocks, 1)

-----------------------------------------------------------------------------
(* The calculator: construction and one query *)

Init ==
    /\ \E c \in Configs :
         /\ period_type = c.ptype
         /\ reset_day = c.rd
         /\ custom_start_date = c.anchor
    /\ clock = datetime(2024, 1, 15, 14, 30, 0)
    /\ op = "idle"
    /\ reference_arg = None
    /\ reference_time = None
    /\ count = 0
    /\ periods = << >>
    /\ result = None
    /\ summary = NoSummary
    /\ calls = << >>

GetCurrentPeriod ==
    /\ op = "idle"
    /\ \/ \E a \in ReferenceArgs :
            /\ reference_arg' = Some(a)
            /\ reference_time' = Some(ensure_timezone(a))
            /\ periods' = << get_current_period(Some(a), clock) >>
            /\ clock' = clock
       \/ \E r \in ClockReadings(1) :
            /\ reference_arg' = None
            /\ reference_time' = Some(r[1])
            /\ periods' = << get_current_period(None, r[1]) >>
            /\ clock' = r[1]
    /\ op' = "get_current_period"
    /\ count' = 1
    /\ UNCHANGED << calc_vars, result, summary_vars >>

GetPeriodForTimestamp ==
    /\ op = "idle"
    /\ \E a \in ReferenceArgs : \E r \in ClockReadings(1) :
         /\ reference_arg' = Some(a)
         /\ reference_time' = Some(ensure_timezone(a))
         /\ periods' = << get_period_for_timestamp(a, r[1]) >>
         /\ clock' = r[1]
    /\ op' = "get_period_for_timestamp"
    /\ count' = 1
    /\ UNCHANGED << calc_vars, result, summary_vars >>

GetRecentPeriods ==
    /\ op = "idle"
    /\ \E n \in 1..MaxCount :
         /\ count' = n
         /\ \/ \E a \in ReferenceArgs : \E r \in ClockReadings(n) :
                 /\ reference_arg' = Some(a)
                 /\ reference_time' = Some(ensure_timezone(a))
                 /\ periods' = get_recent_periods(n, Some(a), clock, r)
                 /\ clock' = r[n]
            \/ \E r \in ClockReadings(n + 1) :
                 /\ reference_arg' = None
                 /\ reference_time' = Some(r[1])
                 /\ periods' = get_recent_periods(n, None, r[1],
                                                  [i \in 1..n |-> r[i + 1]])
                 /\ clock' = r[n + 1]
    /\ op' = "get_recent_periods"
    /\ UNCHANGED << calc_vars, result, summary_vars >>

GetNextResetTime ==
    /\ op = "idle"
    /\ \/ \E a \in ReferenceArgs :
            /\ reference_arg' = Some(a)
            /\ reference_time' = Some(ensure_timezone(a))
            /\ result' = Some(get_next_reset_time(Some(a), clock))
            /\ clock' = clock
       \/ \E r \in ClockReadings(1) :
            /\ reference_arg' = None
            /\ reference_time' = Some(r[1])
            /\ result' = Some(get_next_reset_time(None, r[1]))
            /\ clock' = r[1]
    /\ op' = "get_next_reset_time"
    /\ UNCHANGED << calc_vars, count, periods, summary_vars >>

GetTimeUntilReset ==
    /\ op = "idle"
    /\ \/ \E a \in ReferenceArgs :
            /\ reference_arg' = Some(a)
            /\ reference_time' = Some(ensure_timezone(a))
            /\ result' = Some(get_time_until_reset(Some(a), clock))
            /\ clock' = clock
       \/ \E r \in ClockReadings(1) :
            /\ reference_arg' = None
            /\ reference_time' = Some(r[1])
            /\ result' = Some(get_time_until_reset(None, r[1]))
            /\ clock' = r[1]
    /\ op' = "get_time_until_reset"
    /\ UNCHANGED << calc_vars, count, periods, summary_vars >>

Next ==
    \/ GetCurrentPeriod
    \/ GetPeriodForTimestamp
    \/ GetRecentPeriods
    \/ GetNextResetTime
    \/ GetTimeUntilReset

Spec == Init /\ [][Next]_vars

-----------------------------------------------------------------------------
(* Aggregation: a summary is created for a period the calculator returned   *)
(* and session blocks are added to it                                       *)

\* largest number of session blocks added to one summary
MaxAdds == 2

\* the usage entries explored, around the daily period of 2024-01-15: one
\* before it, one at its start, two inside (those of
\* test_period_summary_creation), one at its end
Entries ==
    { UsageEntry(datetime(2024, 1, 14, 23, 59, 59), 1, 2, 3, 4, 70, "claude-3-opus"),
      UsageEntry(datetime(2024, 1, 15, 0, 0, 0), 10, 5, 3, 2, 10, "claude-3-opus"),
      UsageEntry(datetime(2024, 1, 15, 10, 0, 0), 100, 50, 0, 0, 50, "claude-3-sonnet"),
      UsageEntry(datetime(2024, 1, 15, 12, 0, 0), 200, 100, 0, 0, 100, "claude-3-sonnet"),
      UsageEntry(datetime(2024, 1, 16, 0, 0, 0), 7, 0, 1, 20, 20, "") }

\* the entries of a set in the order of their timestamps
RECURSIVE chronological(_)
chronological(es) ==
    IF es = {} THEN << >>
    ELSE LET e == CHOOSE x \in es : \A y \in es : x.timestamp <= y.timestamp
         IN  << e >> \o chronological(es \ {e})

\* the session blocks explored: every set of entries (the empty one too), each
\* block holding its entries in chronological order
SessionBlocks == { SessionBlock(chronological(es)) : es \in SUBSET Entries }

\* the calculators whose periods are summarized
SummaryConfigs ==
    { [ptype |-> "daily", rd |-> None, anchor |-> None],
      [ptype |-> "daily", rd |-> Some(12), anchor |-> None],
      [ptype |-> "custom", rd |-> None,
       anchor |-> Some(aware_at(datetime(2024, 1, 10, 0, 0, 0), 0))] }

\* the instants whose periods are summarized: the reference of
\* test_period_summary_creation and the end of its daily period
SummaryReferences ==
    { datetime(2024, 1, 15, 14, 30, 0), datetime(2024, 1, 16, 0, 0, 0) }

\* the state after get_period_for_timestamp(t) returned the period of t
InitSummary ==
    /\ \E c \in SummaryConfigs :
         /\ period_type = c.ptype
         /\ reset_day = c.rd
         /\ custom_start_date = c.anchor
    /\ clock = datetime(2024, 1, 15, 14, 30, 0)
    /\ op = "get_period_for_timestamp"
    /\ \E t \in SummaryReferences :
         /\ reference_arg = Some(aware(t))
         /\ reference_time = Some(t)
         /\ periods = << get_period_for_timestamp(aware(t), clock) >>
    /\ count = 1
    /\ result = None
    /\ summary = NoSummary
    /\ calls = << >>

\* the sequences of at most n session blocks
BlockLists(n) == UNION { [1..k -> SessionBlocks] : k \in 0..n }

CreatePeriodSummary ==
    /\ summary = NoSummary
    /\ \E session_blocks \in BlockLists(MaxAdds) :
         /\ summary' = create_period_summary(periods[1], session_blocks)
         /\ calls' = session_blocks
    /\ op' = "create_period_summary"
    /\ UNCHANGED << calc_vars, clock, reference_arg, reference_time, count, periods, result >>

AddSessionBlock ==
    /\ summary # NoSummary
    /\ Len(calls) < MaxAdds
    /\ \E session_block \in SessionBlocks :
         /\ summary' = add_session_block(summary, session_block)
         /\ calls' = Append(calls, session_block)
    /\ op' = "add_session_block"
    /\ UNCHANGED << calc_vars, clock, reference_arg, reference_time, count, periods, result >>

NextSummary ==
    \/ CreatePeriodSummary
    \/ AddSessionBlock

SpecSummary == InitSummary /\ [][NextSummary]_vars

-----------------------------------------------------------------------------
(* Elapsed share: a summary is created for a period the calculator returned  *)
(* and its cost_percentage_of_period is read as the clock advances           *)

\* the readings of the clock: before, at and inside the periods summarized,
\* at their end and after it
PercentageClockValues ==
    { datetime(2024, 1, 15, 14, 30, 0), datetime(2024, 1, 16, 0, 0, 0),
      datetime(2024, 1, 16, 6, 0, 0), datetime(2024, 1, 17, 0, 0, 0),
      datetime(2024, 1, 17, 12, 0, 0) }

\* the state after get_current_period(t) or get_period_for_timestamp(t)
\* returned the period of t
InitPercentage ==
    /\ \E c \in SummaryConfigs :
         /\ period_type = c.ptype
         /\ reset_day = c.rd
         /\ custom_start_date = c.anchor
    /\ clock = datetime(2024, 1, 15, 14, 30, 0)
    /\ \E t \in SummaryReferences :
         /\ reference_arg = Some(aware(t))
         /\ reference_time = Some(t)
         /\ \/ /\ op = "get_current_period"
               /\ periods = << get_current_period(Some(aware(t)), clock) >>
            \/ /\ op = "get_period_for_timestamp"
               /\ periods = << get_period_for_timestamp(aware(t), clock) >>
    /\ count = 1
    /\ result = None
    /\ summary = NoSummary
    /\ calls = << >>

\* create_period_summary(period, session_blocks) with at most one block
CreateSmallPeriodSummary ==
    /\ summary = NoSummary
    /\ \E session_blocks \in BlockLists(1) :
         /\ summary' = create_period_summary(periods[1], session_blocks)
         /\ calls' = session_blocks
    /\ op' = "create_period_summary"
    /\ UNCHANGED << calc_vars, clock, reference_arg, reference_time, count, periods,
                    result >>

\* summary.cost_percentage_of_period: the clock is read if the period is current
CostPercentageOfPeriod ==
    /\ summary # NoSummary
    /\ IF summary.period.is_current
       THEN \E now \in PercentageClockValues :
                /\ now >= clock
                /\ clock' = now
                /\ result' = Some(cost_percentage_of_period(summary, now))
       ELSE /\ clock' = clock
            /\ result' = Some(cost_percentage_of_period(summary, clock))
    /\ op' = "cost_percentage_of_period"
    /\ UNCHANGED << calc_vars, reference_arg, reference_time, count, periods,
                    summary_vars >>

NextPercentage ==
    \/ CreateSmallPeriodSummary
    \/ CostPercentageOfPeriod

SpecPercentage == InitPercentage /\ [][NextPercentage]_vars

-----------------------------------------------------------------------------
(* Construction: BillingPeriodCalculator(period_type, custom_start_date,     *)
(* reset_day) with any period_type value, then a boundary query              *)

\* period_type values that are no member of BillingPeriodType
OtherTypes == {"hourly", "none"}

ConstructorArguments ==
    Configs \cup [ptype : OtherTypes, rd : {None}, anchor : {None}]

\* the references of the queries made after construction
ConstructionReferences ==
    { naive(datetime(2024, 1, 15, 14, 30, 0)),
      aware_at(datetime(2024, 2, 15, 1, 0, 0), 3600) }

InitUnconstructed ==
    /\ period_type = ""
    /\ reset_day = None
    /\ custom_start_date = None
    /\ clock = datetime(2024, 1, 15, 14, 30, 0)
    /\ op = "unconstructed"
    /\ reference_arg = None
    /\ reference_time = None
    /\ count = 0
    /\ periods = << >>
    /\ result = None
    /\ summary = NoSummary
    /\ calls = << >>

\* __init__: the arguments are stored as given; nothing is raised
Construct ==
    /\ op = "unconstructed"
    /\ \E c \in ConstructorArguments :
         /\ period_type' = c.ptype
         /\ reset_day' = c.rd
         /\ custom_start_date' = c.anchor
    /\ op' = "__init__"
    /\ UNCHANGED << clock, reference_arg, reference_time, count, periods, result,
                    summary_vars >>

\* get_current_period(reference_time) on the constructed calculator: a period
\* is returned or the ValueError of _calculate_period_boundaries propagates
GetCurrentPeriodOrRaise ==
    /\ op = "__init__"
    /\ \E a \in ConstructionReferences :
         LET current_period == get_current_period(Some(a), clock)
         IN  /\ reference_arg' = Some(a)
             /\ reference_time' = Some(ensure_timezone(a))
             /\ periods' = IF raised(current_period) THEN << >>
                           ELSE << current_period >>
             /\ result' = IF raised(current_period) THEN Some("ValueError")
                          ELSE None
    /\ op' = "get_current_period"
    /\ count' = 1
    /\ UNCHANGED << calc_vars, clock, summary_vars >>

NextConstruction ==
    \/ Construct
    \/ GetCurrentPeriodOrRaise

SpecConstruction == InitUnconstructed /\ [][NextConstruction]_vars

\* C16: an unsupported or unrecognized period type is rejected when the
\* calculator is constructed: no constructed calculator holds a period type
\* outside BillingPeriodType.
C16_UnsupportedTypeRejectedAtConstruction ==
    op # "unconstructed" => period_type \in BillingPeriodTypes

-----------------------------------------------------------------------------
(* Properties of the period boundaries *)

\* the reference instant and the first period of the call that ran last
Ref == Val(reference_time)
First == periods[1]
Called == op \in {"get_current_period", "get_period_for_timestamp", "get_recent_periods"}

\* C1: the period get_period_for_timestamp(t) returns contains t,
\* start_time <= t < end_time, for every period type, reset offset, anchor
\* and instant t (instants before a Custom anchor included).
C1_PeriodContainsTimestamp ==
    op = "get_period_for_timestamp" =>
        First.start_time <= Ref /\ Ref < First.end_time

\* C2: get_recent_periods(n, reference) with n >= 2 returns n periods, most
\* recent first, each ending no later than the one before it starts and
\* starting strictly earlier.
C2_RecentPeriodsStrictlyDecreasing ==
    (op = "get_recent_periods" /\ count >= 2) =>
        /\ Len(periods) = count
        /\ \A i \in 1..(count - 1) :
             /\ periods[i + 1].end_time <= periods[i].start_time
             /\ periods[i + 1].start_time < periods[i].start_time

\* C6: a Daily period starts at the latest instant <= r whose wall-clock time
\* is H:00:00 (the reference date at H:00 if r is at or after it, otherwise
\* the previous date at H:00; H = 0 without a reset offset) and lasts 24 hours.
C6_DailyBoundaries ==
    (period_type = "daily" /\ Called) =>
        LET H          == IF IsNone(reset_day) THEN 0 ELSE Val(reset_day)
            date_at_H  == (Ref \div 86400) * 86400 + H * 3600
        IN  /\ First.start_time =
                   IF Ref >= date_at_H THEN date_at_H ELSE date_at_H - 86400
            /\ First.start_time % 86400 = H * 3600
            /\ First.start_time <= Ref
            /\ Ref < First.start_time + 86400
            /\ First.end_time = First.start_time + 24 * 3600

C6_Witness ==
    /\ period_type = "daily" /\ reset_day = Some(6)
    /\ op = "get_current_period"
    /\ Ref = datetime(2024, 1, 15, 4, 30, 0)
    /\ First.start_time = datetime(2024, 1, 14, 6, 0, 0)

\* C7: a Weekly period starts at 00:00:00 on a date of weekday W (0 = Monday,
\* the default), that date being the reference date minus
\* ((weekday(r) - W) mod 7) days, and lasts exactly 7 days.
C7_WeeklyBoundaries ==
    (period_type = "weekly" /\ Called) =>
        LET W         == IF IsNone(reset_day) THEN 0 ELSE Val(reset_day)
            \* 2024-01-01 was a Monday
            monday0   == days_from_civil(2024, 1, 1)
            wd(day)   == (day - monday0) % 7
            ref_day   == Ref \div 86400
            start_day == First.start_time \div 86400
        IN  /\ First.start_time % 86400 = 0
            /\ wd(start_day) = W
            /\ start_day = ref_day - ((wd(ref_day) - W) % 7)
            /\ First.end_time - First.start_time = 7 * 86400

C7_Witness ==
    /\ period_type = "weekly" /\ reset_day = Some(2)
    /\ op = "get_current_period"
    /\ Ref = datetime(2024, 1, 19, 14, 30, 0)
    /\ First.start_time = datetime(2024, 1, 17, 0, 0, 0)

\* C8: a Monthly period starts at midnight of day min(D, len(M)) of month M,
\* M being r's month if r.day >= min(D, len(r's month)) and the month before
\* it otherwise, and ends at midnight of day min(D, len(M+1)) of the month
\* after M (D = 1 without a reset offset).
C8_MonthlyBoundaries ==
    (period_type = "monthly" /\ Called) =>
        LET D      == IF IsNone(reset_day) THEN 1 ELSE Val(reset_day)
            r      == dt_date(Ref)
            \* months counted from year 0: month index = 12 * year + month - 1
            idx    == 12 * r.year + r.month - 1
            yr(i)  == i \div 12
            mo(i)  == (i % 12) + 1
            len(i) == monthrange_days(yr(i), mo(i))
            M      == IF r.day >= min2(D, len(idx)) THEN idx ELSE idx - 1
        IN  /\ First.start_time = datetime(yr(M), mo(M), min2(D, len(M)), 0, 0, 0)
            /\ First.end_time =
                   datetime(yr(M + 1), mo(M + 1), min2(D, len(M + 1)), 0, 0, 0)

\* a reference in January before the reset day: the period starts in December
\* of the previous year
C8_Witness ==
    /\ period_type = "monthly" /\ reset_day = Some(30)
    /\ op = "get_current_period"
    /\ Ref = datetime(2023, 1, 15, 23, 59, 59)
    /\ First.start_time = datetime(2022, 12, 30, 0, 0, 0)
    /\ First.end_time = datetime(2023, 1, 30, 0, 0, 0)

\* C9: Monthly with reset day 31 and reference 2024-02-15: the period starts
\* on 2024-02-29 and ends on 2024-03-31.
C9_MonthlyLeapFebruary ==
    (/\ period_type = "monthly" /\ reset_day = Some(31)
     /\ Called /\ Ref = datetime(2024, 2, 15, 0, 0, 0)) =>
        /\ First.start_time = datetime(2024, 2, 29, 0, 0, 0)
        /\ First.end_time = datetime(2024, 3, 31, 0, 0, 0)

\* C9 as amended: Monthly with reset day 31 and reference 2024-02-15: the 15th
\* lies before the clamped reset day 29, so the period starts on 2024-01-31
\* and ends on 2024-02-29, the reset day clamped to the 29 days of February.
C9_MonthlyLeapFebruaryAmended ==
    (/\ period_type = "monthly" /\ reset_day = Some(31)
     /\ Called /\ Ref = datetime(2024, 2, 15, 0, 0, 0)) =>
        /\ First.start_time = datetime(2024, 1, 31, 0, 0, 0)
        /\ First.end_time = datetime(2024, 2, 29, 0, 0, 0)

C9_Witness ==
    /\ period_type = "monthly" /\ reset_day = Some(31)
    /\ op = "get_current_period" /\ Ref = datetime(2024, 2, 15, 0, 0, 0)
    /\ dt_date(First.start_time) = [year |-> 2024, month |-> 1, day |-> 31]
    /\ dt_date(First.end_time) = [year |-> 2024, month |-> 2, day |-> 29]

\* C10: a Custom period with anchor A starts at A + k * 30 days with
\* k = floor((r - A) / 30 days), negative when r precedes A, and ends 30 days
\* after its start.
C10_CustomFloorBoundaries ==
    (period_type = "custom" /\ ~IsNone(custom_start_date) /\ Called) =>
        LET A == ensure_timezone(Val(custom_start_date))
            k == (Ref - A) \div (30 * 86400)
        IN  /\ First.start_time = A + k * (30 * 86400)
            /\ First.end_time = First.start_time + 30 * 86400

-----------------------------------------------------------------------------
(* Properties of the is_current flags *)

\* C11: in the list get_recent_periods(count, reference) returns, whatever
\* the reference (before, at or after the clock's now) and the period type,
\* no period at index >= 1 (the second of the list onwards) has
\* is_current = true.
C11_OnlyFirstMayBeCurrent ==
    op = "get_recent_periods" =>
        \A i \in 2..Len(periods) : ~periods[i].is_current

\* C12: get_recent_periods(count) without a reference returns exactly count
\* periods, the first with is_current = true and every later one with
\* is_current = false, whatever non-decreasing values the clock returns at
\* the reads of the call.
C12_NoReferenceFirstIsCurrent ==
    (op = "get_recent_periods" /\ IsNone(reference_arg)) =>
        /\ Len(periods) = count
        /\ periods[1].is_current
        /\ \A i \in 2..Len(periods) : ~periods[i].is_current

-----------------------------------------------------------------------------
(* Properties of the reset time *)

\* C14: for every configuration and reference r, get_next_reset_time(r) is
\* the end_time of get_current_period(r), and get_time_until_reset(r) is
\* get_next_reset_time(r) minus r, r normalized to the calculator's zone.
C14_ResetTimeIsPeriodEnd ==
    /\ op = "get_next_reset_time" =>
           Val(result) = get_current_period(reference_arg, clock).end_time
    /\ op = "get_time_until_reset" =>
           /\ Val(result) = get_current_period(reference_arg, clock).end_time - Ref
           /\ Val(result) = get_next_reset_time(reference_arg, clock) - Ref

\* test_time_until_reset: 9.5 hours from 14:30 to midnight, the reference
\* passed as 15:30 of a zone one hour ahead
C14_Witness ==
    /\ period_type = "daily" /\ reset_day = None
    /\ op = "get_time_until_reset"
    /\ reference_arg = Some(aware_at(datetime(2024, 1, 15, 15, 30, 0), 3600))
    /\ Ref = datetime(2024, 1, 15, 14, 30, 0)
    /\ result = Some(9 * 3600 + 1800)

\* C15: a Custom calculator without an anchor, whatever its reset_day,
\* returns for every reference the Daily boundaries without offset: the
\* reference date at 00:00:00 and 24 hours later.
C15_CustomWithoutAnchorIsPlainDaily ==
    (period_type = "custom" /\ IsNone(custom_start_date) /\ Called) =>
        /\ First.start_time = (Ref \div 86400) * 86400
        /\ First.end_time = First.start_time + 24 * 3600

\* C20: every period get_current_period, get_period_for_timestamp or
\* get_recent_periods returns, for every period type, in-range reset offset,
\* anchor and reference, has start_time < end_time.
C20_StartBeforeEnd ==
    Called => \A i \in DOMAIN periods : periods[i].start_time < periods[i].end_time

\* three monthly periods back from January across the end of a year, the
\* reset day clamped in a 30-day month
C20_Witness ==
    /\ period_type = "monthly" /\ reset_day = Some(31)
    /\ op = "get_recent_periods" /\ Len(periods) = 3
    /\ dt_date(periods[1].end_time) = [year |-> 2024, month |-> 1, day |-> 31]
    /\ dt_date(periods[1].start_time) = [year |-> 2023, month |-> 12, day |-> 31]
    /\ dt_date(periods[2].start_time) = [year |-> 2023, month |-> 11, day |-> 30]
    /\ \A i \in 1..3 : periods[i].start_time < periods[i].end_time

-----------------------------------------------------------------------------
(* Properties of the elapsed share *)

FracEq(a, b)  == a.num * b.den = b.num * a.den
FracLeq(a, b) == a.num * b.den <= b.num * a.den

\* C13: cost_percentage_of_period is 100 for a period with is_current =
\* false whatever now is; for a period with is_current = true it is 0 when
\* now <= start_time, 100 when now >= end_time and otherwise
\* (now - start_time) / (end_time - start_time) * 100, so it lies in [0, 100]
\* and does not decrease as now advances.
C13_ElapsedShare ==
    op = "cost_percentage_of_period" =>
        LET P     == summary.period
            now   == clock
            value == Val(result)
            whole == Fraction(100, 1)
            zero  == Fraction(0, 1)
        IN  /\ ~P.is_current => value = whole
            /\ (P.is_current /\ now <= P.start_time) => value = zero
            /\ (P.is_current /\ now >= P.end_time) => value = whole
            /\ (P.is_current /\ P.start_time < now /\ now < P.end_time) =>
                   FracEq(value, Fraction((now - P.start_time) * 100,
                                          P.end_time - P.start_time))
            /\ value.den > 0
            /\ FracLeq(zero, value) /\ FracLeq(value, whole)
            /\ \A n1, n2 \in PercentageClockValues :
                   n1 <= n2 => FracLeq(cost_percentage_of_period(summary, n1),
                                       cost_percentage_of_period(summary, n2))
            /\ \A n \in PercentageClockValues :
                   ~P.is_current => cost_percentage_of_period(summary, n) = whole

\* a quarter of the daily period of 2024-01-16 has elapsed at 06:00
C13_Witness ==
    /\ op = "cost_percentage_of_period"
    /\ summary.period.is_current
    /\ summary.period.start_time = datetime(2024, 1, 16, 0, 0, 0)
    /\ summary.period.end_time = datetime(2024, 1, 17, 0, 0, 0)
    /\ clock = datetime(2024, 1, 16, 6, 0, 0)
    /\ FracEq(Val(result), Fraction(25, 1))
    /\ summary.entries_count > 0

-----------------------------------------------------------------------------
(* Properties of the aggregation *)

\* all entries passed to add_session_block so far, call after call
RECURSIVE AllEntries(_)
AllEntries(blocks) ==
    IF blocks = << >> THEN << >>
    ELSE Head(blocks).entries \o AllEntries(Tail(blocks))

RECURSIVE SumSeq(_)
SumSeq(ns) == IF ns = << >> THEN 0 ELSE Head(ns) + SumSeq(Tail(ns))

SumOf(es, F(_)) == SumSeq([k \in DOMAIN es |-> F(es[k])])

InPeriod(e) ==
    summary.period.start_time <= e.timestamp /\ e.timestamp < summary.period.end_time

\* the entries passed so far whose timestamp lies in the summary's period
Counted == SelectSeq(AllEntries(calls), InPeriod)

\* C3: after any sequence of add_session_block calls, total_cost, the four
\* token_counts fields and entries_count are the sums over all calls of the
\* cost, the token fields and the number of the call's entries stamped inside
\* [start_time, end_time); entries outside contribute nothing and a batch
\* added twice counts twice.
C3_TotalsAreSumsOfInPeriodEntries ==
    summary # NoSummary =>
        /\ summary.total_cost = SumOf(Counted, LAMBDA e : e.cost_usd)
        /\ summary.token_counts.input_tokens = SumOf(Counted, LAMBDA e : e.input_tokens)
        /\ summary.token_counts.output_tokens = SumOf(Counted, LAMBDA e : e.output_tokens)
        /\ summary.token_counts.cache_creation_tokens =
               SumOf(Counted, LAMBDA e : e.cache_creation_tokens)
        /\ summary.token_counts.cache_read_tokens =
               SumOf(Counted, LAMBDA e : e.cache_read_tokens)
        /\ summary.entries_count = Len(Counted)

\* the two entries of test_period_summary_creation in one block, added twice,
\* the second time together with entries outside the period: 2 * 0.15 dollars,
\* 2 * 450 tokens, 4 entries
C3_Witness ==
    /\ summary # NoSummary
    /\ Len(calls) = 2
    /\ Len(calls[1].entries) = 2
    /\ \A k \in 1..2 : InPeriod(calls[1].entries[k]) /\ calls[1].entries[k].cost_usd >= 50
    /\ \E k \in DOMAIN calls[2].entries : ~InPeriod(calls[2].entries[k])
    /\ summary.total_cost = 300
    /\ total_tokens_calculated(summary) = 900
    /\ summary.entries_count = 4

\* C4: add_session_block with a batch none of whose entries is stamped inside
\* the period (an empty batch included) leaves every field of the summary
\* unchanged, the session_blocks list included.
C4_NoRelevantEntryNoChange ==
    [][ ( /\ summary # NoSummary
          /\ op' = "add_session_block"
          /\ calls' # calls
          /\ \A k \in DOMAIN calls'[Len(calls')].entries :
                 ~InPeriod(calls'[Len(calls')].entries[k]) )
        => summary' = summary ]_vars

\* a non-empty batch entirely outside the period was added to a summary that
\* already counted entries
C4_Witness ==
    /\ op = "add_session_block"
    /\ summary.entries_count > 0
    /\ calls[Len(calls)].entries # << >>
    /\ \A k \in DOMAIN calls[Len(calls)].entries : ~InPeriod(calls[Len(calls)].entries[k])
    /\ Len(summary.session_blocks) = Len(calls) - 1

\* the number of entries passed so far that are stamped t
StampedAt(t) ==
    Cardinality({ k \in DOMAIN AllEntries(calls) : AllEntries(calls)[k].timestamp = t })

\* C5: membership is half-open: contains_timestamp(t) holds exactly when
\* start_time <= t < end_time; an entry stamped at the period's end_time is not
\* counted in its summary but is counted in the summary of the period
\* get_period_for_timestamp returns for that instant, and an entry stamped at
\* start_time is counted.
C5_HalfOpenMembership ==
    summary # NoSummary =>
        LET P        == summary.period
            all      == AllEntries(calls)
            strictly == Cardinality({ k \in DOMAIN all :
                                        /\ P.start_time < all[k].timestamp
                                        /\ all[k].timestamp < P.end_time })
            Q        == get_period_for_timestamp(aware(P.end_time), clock)
            strictlyQ == Cardinality({ k \in DOMAIN all :
                                        /\ Q.start_time < all[k].timestamp
                                        /\ all[k].timestamp < Q.end_time })
        IN  /\ contains_timestamp(P, P.start_time)
            /\ ~contains_timestamp(P, P.end_time)
            /\ \A k \in DOMAIN all :
                   contains_timestamp(P, all[k].timestamp) <=>
                       (P.start_time <= all[k].timestamp /\ all[k].timestamp < P.end_time)
            /\ summary.entries_count = StampedAt(P.start_time) + strictly
            /\ Q.start_time = P.end_time
            /\ create_period_summary(Q, calls).entries_count
                   = StampedAt(P.end_time) + strictlyQ

\* entries stamped at the start and at the end of the daily period of
\* 2024-01-15 were added: the first is counted, the second is not
C5_Witness ==
    /\ summary # NoSummary
    /\ summary.period.start_time = datetime(2024, 1, 15, 0, 0, 0)
    /\ summary.period.end_time = datetime(2024, 1, 16, 0, 0, 0)
    /\ Len(calls) = 1
    /\ StampedAt(summary.period.start_time) = 1
    /\ StampedAt(summary.period.end_time) = 1
    /\ summary.entries_count = 1
    /\ summary.last_usage = Some(summary.period.start_time)

-----------------------------------------------------------------------------
(* Properties of the order of the batches *)

\* the permutations of 1..n
Permutations(n) ==
    { f \in [1..n -> 1..n] : \A i, j \in 1..n : f[i] = f[j] => i = j }

\* the summaries create_period_summary builds from the batches of calls taken
\* in every order
Reordered ==
    { create_period_summary(summary.period, [i \in DOMAIN calls |-> calls[f[i]]])
        : f \in Permutations(Len(calls)) }

Range(seq) == { seq[k] : k \in DOMAIN seq }

\* C17: create_period_summary(period, batches) yields the same summary for
\* every ordering of the batches: total_cost, token_counts, entries_count,
\* models_used as an ordered list, per_model_costs, first_usage and last_usage
\* are the same for every permutation of the list.
C17_BatchOrderIrrelevant ==
    op = "create_period_summary" =>
        \A other \in Reordered :
            /\ other.total_cost = summary.total_cost
            /\ other.token_counts = summary.token_counts
            /\ other.entries_count = summary.entries_count
            /\ other.models_used = summary.models_used
            /\ other.per_model_costs = summary.per_model_costs
            /\ other.first_usage = summary.first_usage
            /\ other.last_usage = summary.last_usage

\* C17 as amended: total_cost, token_counts, entries_count, the set of the
\* models listed in models_used, per_model_costs, first_usage and last_usage
\* are the same for every permutation of the batch list; the order of
\* models_used follows the order of the batches.
C17_BatchOrderIrrelevantAmended ==
    op = "create_period_summary" =>
        \A other \in Reordered :
            /\ other.total_cost = summary.total_cost
            /\ other.token_counts = summary.token_counts
            /\ other.entries_count = summary.entries_count
            /\ Range(other.models_used) = Range(summary.models_used)
            /\ Len(other.models_used) = Len(summary.models_used)
            /\ other.per_model_costs = summary.per_model_costs
            /\ other.first_usage = summary.first_usage
            /\ other.last_usage = summary.last_usage

\* two batches with counted entries of different models: the other order
\* lists the models the other way round
C17_Witness ==
    /\ op = "create_period_summary"
    /\ Len(calls) = 2
    /\ summary.models_used = << "claude-3-sonnet", "claude-3-opus" >>
    /\ Len(summary.session_blocks) = 2
    /\ \E other \in Reordered :
           other.models_used = << "claude-3-opus", "claude-3-sonnet" >>
    /\ \A other \in Reordered : other.per_model_costs = summary.per_model_costs

-----------------------------------------------------------------------------
(* Properties of the models and of the first and last usage *)

\* the models of the counted entries in the order in which they were counted
CountedModels == [k \in DOMAIN Counted |-> Counted[k].model]

\* the non-empty elements of ms from index k on that do not occur earlier
RECURSIVE FirstSeen(_, _)
FirstSeen(ms, k) ==
    IF k > Len(ms) THEN << >>
    ELSE (IF ms[k] # "" /\ \A j \in 1..(k - 1) : ms[j] # ms[k]
          THEN << ms[k] >> ELSE << >>) \o FirstSeen(ms, k + 1)

\* C18: after any sequence of add_session_block calls, models_used has no
\* duplicates and never the empty string, and lists exactly the non-empty
\* model names of the counted entries in the order of their first counting;
\* per_model_costs has a key for every model string of a counted entry, the
\* empty string included.
C18_ModelsUsedFirstSeenOrder ==
    summary # NoSummary =>
        /\ \A i, j \in DOMAIN summary.models_used :
               summary.models_used[i] = summary.models_used[j] => i = j
        /\ \A i \in DOMAIN summary.models_used : summary.models_used[i] # ""
        /\ summary.models_used = FirstSeen(CountedModels, 1)
        /\ DOMAIN summary.per_model_costs = Range(CountedModels)

\* entries of two models and one without a model name were counted, one
\* model more than once
C18_Witness ==
    /\ summary # NoSummary
    /\ summary.models_used = << "claude-3-sonnet", "claude-3-opus" >>
    /\ DOMAIN summary.per_model_costs = {"", "claude-3-opus", "claude-3-sonnet"}
    /\ summary.entries_count > 3
    /\ Len(calls) = 2

\* C19: after any sequence of add_session_block calls, first_usage and
\* last_usage are both None exactly when entries_count is 0; otherwise they
\* are the minimum and the maximum timestamp of all entries counted so far,
\* so start_time <= first_usage <= last_usage < end_time.
C19_FirstLastUsage ==
    summary # NoSummary =>
        LET stamps == { Counted[k].timestamp : k \in DOMAIN Counted }
        IN  /\ IsNone(summary.first_usage) <=> summary.entries_count = 0
            /\ IsNone(summary.last_usage) <=> summary.entries_count = 0
            /\ summary.entries_count > 0 =>
                   /\ Val(summary.first_usage) \in stamps
                   /\ Val(summary.last_usage) \in stamps
                   /\ \A t \in stamps : /\ Val(summary.first_usage) <= t
                                         /\ t <= Val(summary.last_usage)
                   /\ summary.period.start_time <= Val(summary.first_usage)
                   /\ Val(summary.first_usage) <= Val(summary.last_usage)
                   /\ Val(summary.last_usage) < summary.period.end_time

\* the second batch holds an earlier entry than the first: first_usage moves
\* back and last_usage stays
C19_Witness ==
    /\ op = "add_session_block"
    /\ Len(calls) = 2
    /\ Len(calls[1].entries) = 1
    /\ calls[1].entries[1].timestamp = datetime(2024, 1, 15, 12, 0, 0)
    /\ summary.first_usage = Some(datetime(2024, 1, 15, 10, 0, 0))
    /\ summary.last_usage = Some(datetime(2024, 1, 15, 12, 0, 0))
    /\ summary.entries_count = 2

-----------------------------------------------------------------------------
(* Properties of the length and the succession of periods *)

\* C21: for a Monthly calculator with any reset day 1..31 and any reference
\* (leap and non-leap years, the turn of the year included), end_time -
\* start_time is a whole number of days between 28 and 31.
C21_MonthlyLengthInDays ==
    (period_type = "monthly" /\ Called) =>
        \A i \in DOMAIN periods :
            LET length == periods[i].end_time - periods[i].start_time
            IN  /\ length % 86400 = 0
                /\ 28 <= length \div 86400
                /\ length \div 86400 <= 31

\* three periods back from February 2023 with reset day 31: 28 days (January
\* 31 to February 28), 31 days across the turn of the year, and 31 days from
\* the clamped November 30
C21_Witness ==
    /\ period_type = "monthly" /\ reset_day = Some(31)
    /\ op = "get_recent_periods" /\ Len(periods) = 3
    /\ dt_date(periods[1].start_time) = [year |-> 2023, month |-> 1, day |-> 31]
    /\ periods[1].end_time - periods[1].start_time = 28 * 86400
    /\ periods[2].end_time - periods[2].start_time = 31 * 86400
    /\ dt_date(periods[3].start_time) = [year |-> 2022, month |-> 11, day |-> 30]
    /\ periods[3].end_time - periods[3].start_time = 31 * 86400

\* C23: for Daily (reset hour 0..23), Weekly (reset weekday 0..6) and Monthly
\* (reset day 1..31) calculators in a fixed-offset zone, consecutive periods
\* of get_recent_periods tile time: periods[i+1].end_time =
\* periods[i].start_time for every i, without gap or overlap, across changes
\* of month length and turns of the year too.
C23_RecentPeriodsTile ==
    (op = "get_recent_periods" /\ period_type \in {"daily", "weekly", "monthly"}) =>
        \A i \in 1..(Len(periods) - 1) :
            periods[i + 1].end_time = periods[i].start_time

\* three monthly periods with reset day 30 back from March 2023: the middle
\* one starts on the clamped February 28
C23_Witness ==
    /\ period_type = "monthly" /\ reset_day = Some(30)
    /\ op = "get_recent_periods" /\ Len(periods) = 3
    /\ dt_date(periods[1].start_time) = [year |-> 2023, month |-> 2, day |-> 28]
    /\ dt_date(periods[2].start_time) = [year |-> 2023, month |-> 1, day |-> 30]
    /\ dt_date(periods[3].start_time) = [year |-> 2022, month |-> 12, day |-> 30]
    /\ periods[2].end_time = periods[1].start_time
    /\ periods[3].end_time = periods[2].start_time

\* C24: resolution is stable inside a period: if (s, e) are the boundaries
\* resolved for an instant t, every instant t2 with s <= t2 < e resolves to
\* the same (s, e), for every configuration.
C24_ResolutionStableInsidePeriod ==
    op = "get_current_period" =>
        \A t2 \in {First.start_time, Ref, First.end_time - 1} :
            (First.start_time <= t2 /\ t2 < First.end_time) =>
                calculate_period_boundaries(t2) = << First.start_time, First.end_time >>

\* C25: for every configuration and reference r, given or read from the
\* clock, get_time_until_reset(r) is strictly positive and at most the length
\* of the period resolved for r.
C25_TimeUntilResetPositiveAndBounded ==
    op = "get_time_until_reset" =>
        LET period == get_current_period(reference_arg, clock)
        IN  /\ Val(result) > 0
            /\ Val(result) <= period.end_time - period.start_time

-----------------------------------------------------------------------------
(* Properties of the per-model costs and of total_tokens *)

\* the sum of the values of a dict over the keys given
RECURSIVE SumValues(_, _)
SumValues(d, keys) ==
    IF keys = {} THEN 0
    ELSE LET k == CHOOSE x \in keys : TRUE
         IN  d[k] + SumValues(d, keys \ {k})

\* the counted entries whose model is m
CountedOf(m) == SelectSeq(Counted, LAMBDA e : e.model = m)

\* C26: after any sequence of add_session_block calls, costs being exact
\* numbers, the values of per_model_costs sum to total_cost and each
\* per_model_costs[m] is the summed cost of the counted entries of model m.
C26_PerModelCostsSumToTotal ==
    summary # NoSummary =>
        /\ SumValues(summary.per_model_costs, DOMAIN summary.per_model_costs)
               = summary.total_cost
        /\ \A m \in DOMAIN summary.per_model_costs :
               summary.per_model_costs[m] = SumOf(CountedOf(m), LAMBDA e : e.cost_usd)

\* three keys, the empty model name among them, one model counted in both
\* calls
C26_Witness ==
    /\ summary # NoSummary
    /\ Len(calls) = 2
    /\ DOMAIN summary.per_model_costs = {"", "claude-3-opus", "claude-3-sonnet"}
    /\ summary.per_model_costs[""] = 20
    /\ summary.per_model_costs["claude-3-sonnet"] = 200
    /\ summary.per_model_costs["claude-3-opus"] = 10
    /\ summary.total_cost = 230

\* the tokens of the counted entries, the four fields together
CountedTokens ==
    SumOf(Counted, LAMBDA e : e.input_tokens + e.output_tokens
                              + e.cache_creation_tokens + e.cache_read_tokens)

\* C27: add_session_block never writes total_tokens: after any sequence of
\* adds it holds its initial value, 0 for a summary of create_period_summary,
\* whereas total_tokens_calculated is the sum of the four token_counts fields;
\* the two agree only when no tokens were counted.
C27_TotalTokensNeverWritten ==
    summary # NoSummary =>
        /\ summary.total_tokens = 0
        /\ total_tokens_calculated(summary) =
               summary.token_counts.input_tokens + summary.token_counts.output_tokens
               + summary.token_counts.cache_creation_tokens
               + summary.token_counts.cache_read_tokens
        /\ total_tokens_calculated(summary) = CountedTokens
        /\ (summary.total_tokens = total_tokens_calculated(summary)) <=> CountedTokens = 0

\* the two entries of test_period_summary_creation were counted: 450 tokens
\* calculated, total_tokens still 0
C27_Witness ==
    /\ op = "add_session_block"
    /\ summary.entries_count = 2
    /\ summary.total_tokens = 0
    /\ total_tokens_calculated(summary) = 450

-----------------------------------------------------------------------------
(* data/analysis.py: analyze_usage_with_billing_periods. The session blocks   *)
(* come from SessionAnalyzer.transform_to_blocks, which is not part of the    *)
(* sources at hand: a loaded block carries its entries, and token_counts and  *)
(* cost_usd as the sums over its entries.                                      *)

\* largest number of session blocks loaded by one analysis
MaxBlocks == 2

\* datetime.isoformat() of an aware datetime of the user's zone: the fields
\* its text spells out, the UTC offset (in seconds) last
isoformat(t) ==
    Bind(dt_date(t),
         LAMBDA d : << d.year, d.month, d.day, dt_hour(t), dt_minute(t), dt_second(t), 0 >>)

\* BillingPeriod.duration_days
duration_days(period) == Fraction(period.end_time - period.start_time, 24 * 3600)

\* a SessionBlock as loaded: entries, token_counts and cost_usd
LoadedBlock(entries) ==
    [entries |-> entries,
     token_counts |->
         TokenCounts(SumOf(entries, LAMBDA e : e.input_tokens),
                     SumOf(entries, LAMBDA e : e.output_tokens),
                     SumOf(entries, LAMBDA e : e.cache_creation_tokens),
                     SumOf(entries, LAMBDA e : e.cache_read_tokens)),
     cost_usd |-> SumOf(entries, LAMBDA e : e.cost_usd)]

\* _format_block_entries
format_block_entries(entries) ==
    [k \in DOMAIN entries |->
        [timestamp |-> isoformat(entries[k].timestamp),
         inputTokens |-> entries[k].input_tokens,
         outputTokens |-> entries[k].output_tokens,
         cacheCreationTokens |-> entries[k].cache_creation_tokens,
         cacheReadInputTokens |-> entries[k].cache_read_tokens,
         costUSD |-> entries[k].cost_usd,
         model |-> entries[k].model]]

\* _create_base_block_dict: the keys read by analyze_usage_with_billing_periods
\* and the token counts
create_base_block_dict(block) ==
    [tokenCounts |-> block.token_counts,
     totalTokens |-> block.token_counts.input_tokens + block.token_counts.output_tokens,
     costUSD |-> block.cost_usd,
     entries |-> format_block_entries(block.entries),
     entries_count |-> Len(block.entries)]

\* _convert_blocks_to_dict_format
convert_blocks_to_dict_format(blocks) ==
    [k \in DOMAIN blocks |-> create_base_block_dict(blocks[k])]

\* analyze_usage: the result of _create_result for the blocks loaded; the key
\* billing_periods is absent (None)
analyze_usage(blocks) ==
    [blocks |-> convert_blocks_to_dict_format(blocks),
     total_tokens |-> SumOf(blocks, LAMBDA b : token_counts_total(b.token_counts)),
     total_cost |-> SumOf(blocks, LAMBDA b : b.cost_usd),
     billing_periods |-> None]

\* datetime.strptime(billing_start_date, "%Y-%m-%d") on the texts explored: a
\* naive datetime at midnight, or ValueError
strptime(date_string) ==
    CASE date_string = "2024-01-10" -> naive(datetime(2024, 1, 10, 0, 0, 0))
      [] date_string = "2023-12-31" -> naive(datetime(2023, 12, 31, 0, 0, 0))
      [] OTHER -> ValueError

\* lines 168-173: custom_start_date as handed to the calculator
parse_billing_start_date(billing_start_date) ==
    IF IsNone(billing_start_date) \/ Val(billing_start_date) = "" THEN None
    ELSE Bind(strptime(Val(billing_start_date)),
              LAMBDA d : IF d = ValueError THEN None ELSE Some(d))

\* lines 191-205: the one summary built, over all blocks of the result
billing_summary(current_period, blocks_data) ==
    [period |->
        [type |-> current_period.period_type,
         start_time |-> isoformat(current_period.start_time),
         end_time |-> isoformat(current_period.end_time),
         is_current |-> current_period.is_current,
         duration_days |-> duration_days(current_period)],
     usage |->
        [total_cost |-> SumOf(blocks_data, LAMBDA b : b.costUSD),
         total_tokens |-> SumOf(blocks_data, LAMBDA b : b.totalTokens),
         entries_count |-> SumOf(blocks_data, LAMBDA b : Len(b.entries)),
         session_blocks_count |-> Len(blocks_data)]]

\* lines 208-215: result["billing_periods"]
billing_periods_dict(billing_period_type, current_period, next_reset, time_until_reset, blocks_data) ==
    Bind(billing_summary(current_period, blocks_data),
         LAMBDA billing_summaries_0 :
             [enabled |-> TRUE,
              period_type |-> billing_period_type,
              current_period |-> billing_summaries_0,
              recent_periods |-> << billing_summaries_0 >>,
              next_reset |-> isoformat(next_reset),
              time_until_reset |-> time_until_reset])

\* lines 149-165: the standard result is returned as it is
returns_standard_result(billing_period_type, blocks_data) ==
    \/ billing_period_type = "none"
    \/ blocks_data = << >>
    \/ billing_period_type \notin BillingPeriodTypes

\* the arguments explored: every period type, "none" and an unknown one; no
\* start date, two dates, an empty and a malformed text; no reset day and one
\* that is in range for every type
AnalysisArguments ==
    [billing_period_type : BillingPeriodTypes \cup OtherTypes,
     billing_start_date : {None, Some("2024-01-10"), Some("2023-12-31"), Some(""),
                           Some("10/01/2024")},
     billing_reset_day : {None, Some(2)}]

\* the blocks on disk, in chronological order: one that ended before
\* 2024-01-15, a gap, one within that day and one that starts with the next
BlocksOnDisk ==
    << LoadedBlock(<< UsageEntry(datetime(2024, 1, 14, 23, 59, 59), 1, 2, 3, 4, 70,
                                 "claude-3-opus") >>),
       LoadedBlock(<< >>),
       LoadedBlock(<< UsageEntry(datetime(2024, 1, 15, 10, 0, 0), 100, 50, 0, 0, 50,
                                 "claude-3-sonnet"),
                      UsageEntry(datetime(2024, 1, 15, 12, 0, 0), 200, 100, 0, 0, 100,
                                 "claude-3-sonnet") >>),
       LoadedBlock(<< UsageEntry(datetime(2024, 1, 16, 0, 0, 0), 7, 0, 1, 20, 20, "") >>) >>

\* the elements of seq at the indices in S, in their order
subsequence(seq, S) ==
    LET F[i \in 0..Len(seq)] ==
            IF i = 0 THEN << >>
            ELSE IF i \in S THEN Append(F[i - 1], seq[i]) ELSE F[i - 1]
    IN  F[Len(seq)]

\* what load_usage_entries and transform_to_blocks can hand over: at most
\* MaxBlocks of the blocks on disk
LoadedBlockLists ==
    { subsequence(BlocksOnDisk, S) :
        S \in { T \in SUBSET DOMAIN BlocksOnDisk : Cardinality(T) <= MaxBlocks } }

\* before the first analysis: no calculator was built yet
InitAnalysis ==
    /\ period_type = ""
    /\ reset_day = None
    /\ custom_start_date = None
    /\ clock = datetime(2024, 1, 15, 14, 30, 0)
    /\ op = "idle"
    /\ reference_arg = None
    /\ reference_time = None
    /\ count = 0
    /\ periods = << >>
    /\ result = None
    /\ summary = NoSummary
    /\ calls = << >>

\* analyze_usage_with_billing_periods(billing_period_type, billing_start_date,
\* billing_reset_day): calls holds the session blocks loaded, periods the
\* current period if one was computed, result the dictionary returned. The
\* calculator is built by a call that gets that far, and asked three times,
\* each question reading the clock anew.
AnalyzeUsageWithBillingPeriods ==
    /\ op = "idle"
    /\ \E a \in AnalysisArguments : \E blocks \in LoadedBlockLists :
         LET standard == analyze_usage(blocks)
         IN  /\ calls' = blocks
             /\ IF returns_standard_result(a.billing_period_type, standard.blocks)
                THEN /\ result' = Some(standard)
                     /\ periods' = << >>
                     /\ UNCHANGED << calc_vars, clock, reference_time >>
                ELSE \E r \in ClockReadings(3) :
                       /\ period_type' = a.billing_period_type
                       /\ custom_start_date' =
                              parse_billing_start_date(a.billing_start_date)
                       /\ reset_day' = a.billing_reset_day
                       /\ periods' = << get_current_period(None, r[1])' >>
                       /\ result' =
                              Some([standard EXCEPT !.billing_periods =
                                       Some(billing_periods_dict(
                                                a.billing_period_type,
                                                get_current_period(None, r[1])',
                                                get_next_reset_time(None, r[2])',
                                                get_time_until_reset(None, r[3])',
                                                standard.blocks))])
                       /\ reference_time' = Some(r[1])
                       /\ clock' = r[3]
    /\ op' = "analyze_usage_with_billing_periods"
    /\ reference_arg' = None
    /\ count' = 1
    /\ summary' = summary

NextAnalysis == AnalyzeUsageWithBillingPeriods

SpecAnalysis == InitAnalysis /\ [][NextAnalysis]_vars

-----------------------------------------------------------------------------
(* Properties of the billing_periods block of the analysis *)

\* the analysis got as far as the billing_periods block
Reported ==
    /\ op = "analyze_usage_with_billing_periods"
    /\ ~IsNone(Val(result).billing_periods)

\* result["billing_periods"]
BillingPeriods == Val(Val(result).billing_periods)

\* the entries of the loaded blocks stamped inside the current period
InCurrentPeriod ==
    SelectSeq(AllEntries(calls), LAMBDA e : contains_timestamp(periods[1], e.timestamp))

\* C22: the usage totals reported for the current billing period (total_cost,
\* total_tokens, entries_count) count only the entries whose timestamp lies in
\* [start_time, end_time) of that period; entries of loaded blocks stamped
\* outside it are not included. Tokens are counted as the block dictionaries
\* count them, input plus output.
C22_TotalsCountOnlyCurrentPeriod ==
    Reported =>
        LET usage == BillingPeriods.current_period.usage
        IN  /\ usage.entries_count = Len(InCurrentPeriod)
            /\ usage.total_cost = SumOf(InCurrentPeriod, LAMBDA e : e.cost_usd)
            /\ usage.total_tokens =
                   SumOf(InCurrentPeriod, LAMBDA e : e.input_tokens + e.output_tokens)

\* C28: in the billing_periods block next_reset equals the end_time of
\* current_period, and time_until_reset is the distance from one instant
\* inside current_period to that end, also when the clock crosses a period
\* boundary between the three clock reads.
C28_ResetAgreesWithCurrentPeriod ==
    Reported =>
        /\ BillingPeriods.next_reset = BillingPeriods.current_period.period.end_time
        \* end_time - t for an instant t with start_time <= t < end_time
        /\ 0 < BillingPeriods.time_until_reset
        /\ BillingPeriods.time_until_reset <= periods[1].end_time - periods[1].start_time

====
